---- MODULE Spec2Model ----
(***************************************************************************)
(* S3archiver (src/main.go): one process run loads the manifest, lists the *)
(* bucket, walks the local tree, uploads what is in neither, and saves the *)
(* manifest once at the end.                                               *)
(*                                                                         *)
(* A Go string is modelled as a sequence of one-character strings, so that *)
(* strings.TrimPrefix, strings.ReplaceAll and filepath.Join are computed   *)
(* character by character, as the library computes them.                   *)
(***************************************************************************)
EXTENDS Integers, Sequences, FiniteSets, TLC

(***************************************************************************)
(* Bounds of the model.                                                    *)
(***************************************************************************)
\* number of successive process runs over the same local files
MaxRuns == 2
\* number of entries (regular files, symbolic links) in the local tree
MaxFiles == 3
\* number of keys in the manifest file found on disk before the first run
MaxManifest == 1
\* number of keys one page of the bucket listing holds
PageSize == 1

(***************************************************************************)
(* Characters and strings.                                                 *)
(***************************************************************************)
Slash == "/"
Backslash == "\\"

\* byte value of the characters the model uses (sort.Strings and S3 order bytewise)
Ord(c) ==
    CASE c = "-" -> 45
      [] c = "." -> 46
      [] c = "/" -> 47
      [] c = ":" -> 58
      [] c = "\\" -> 92
      [] c = "_" -> 95
      [] c = "a" -> 97
      [] c = "b" -> 98
      [] c = "c" -> 99
      [] c = "d" -> 100
      [] c = "h" -> 104
      [] c = "j" -> 106
      [] c = "l" -> 108
      [] c = "s" -> 115
      [] c = "z" -> 122
      [] OTHER -> 0

RECURSIVE StrLess(_, _)
\* s < t for Go strings (bytewise, a proper prefix is smaller)
StrLess(s, t) ==
    IF t = <<>> THEN FALSE
    ELSE IF s = <<>> THEN TRUE
    ELSE IF Ord(s[1]) # Ord(t[1]) THEN Ord(s[1]) < Ord(t[1])
    ELSE StrLess(Tail(s), Tail(t))

\* strings.HasPrefix
HasPrefix(s, prefix) ==
    /\ Len(s) >= Len(prefix)
    /\ SubSeq(s, 1, Len(prefix)) = prefix

\* strings.TrimPrefix: s without the leading prefix, or s itself
TrimPrefix(s, prefix) ==
    IF HasPrefix(s, prefix) THEN SubSeq(s, Len(prefix) + 1, Len(s)) ELSE s

RECURSIVE ReplaceAll(_, _, _)
\* strings.ReplaceAll for a non-empty old: every non-overlapping occurrence, left to right
ReplaceAll(s, old, new) ==
    IF s = <<>> THEN <<>>
    ELSE IF HasPrefix(s, old) THEN new \o ReplaceAll(SubSeq(s, Len(old) + 1, Len(s)), old, new)
    ELSE <<s[1]>> \o ReplaceAll(Tail(s), old, new)

(***************************************************************************)
(* path/filepath: the separator is "/" on Unix and "\" on Windows, where   *)
(* "/" separates too.                                                      *)
(***************************************************************************)
IsPathSeparator(c, sep) == c = sep \/ (sep = Backslash /\ c = Slash)

RECURSIVE NextSeparator(_, _, _)
\* the index of the first separator of path at or after i, Len(path) + 1 if none
NextSeparator(path, i, sep) ==
    IF i > Len(path) THEN Len(path) + 1
    ELSE IF IsPathSeparator(path[i], sep) THEN i
    ELSE NextSeparator(path, i + 1, sep)

\* volumeNameLen: none on Unix; on Windows a drive letter and a colon, or the
\* \\host\share of a UNC path, either slash counting (the device paths \\.\ and
\* \\?\ are not among the spellings explored)
VolumeNameLen(path, sep) ==
    IF sep # Backslash \/ Len(path) < 2 THEN 0
    ELSE IF path[2] = ":" /\ Ord(path[1]) >= 97 THEN 2
    ELSE IF ~(IsPathSeparator(path[1], sep) /\ IsPathSeparator(path[2], sep)) THEN 0
    ELSE LET hostEnd == NextSeparator(path, 3, sep)
             shareEnd == NextSeparator(path, hostEnd + 1, sep)
         IN  IF shareEnd > Len(path) THEN Len(path) ELSE shareEnd - 1

\* filepath.FromSlash
FromSlash(path, sep) == ReplaceAll(path, <<Slash>>, <<sep>>)

RECURSIVE SplitElems(_, _, _)
\* the elements of a path between separators, empty ones included
SplitElems(path, sep, cur) ==
    IF path = <<>> THEN <<cur>>
    ELSE IF IsPathSeparator(path[1], sep) THEN <<cur>> \o SplitElems(Tail(path), sep, <<>>)
    ELSE SplitElems(Tail(path), sep, Append(cur, path[1]))

RECURSIVE CleanElems(_, _, _)
\* Clean's rules 2-4 over the elements: drop "." and empty elements, resolve ".."
CleanElems(elems, rooted, out) ==
    IF elems = <<>> THEN out
    ELSE LET e == Head(elems)
             rest == Tail(elems)
         IN  IF e = <<>> \/ e = <<".">> THEN CleanElems(rest, rooted, out)
             ELSE IF e = <<".", ".">>
             THEN IF out # <<>> /\ out[Len(out)] # <<".", ".">>
                  THEN CleanElems(rest, rooted, SubSeq(out, 1, Len(out) - 1))
                  ELSE IF rooted THEN CleanElems(rest, rooted, out)
                  ELSE CleanElems(rest, rooted, Append(out, e))
             ELSE CleanElems(rest, rooted, Append(out, e))

RECURSIVE JoinElems(_, _)
JoinElems(elems, sep) ==
    IF elems = <<>> THEN <<>>
    ELSE IF Len(elems) = 1 THEN elems[1]
    ELSE elems[1] \o <<sep>> \o JoinElems(Tail(elems), sep)

\* filepath.Clean
Clean(path, sep) ==
    LET n == VolumeNameLen(path, sep)
        vol == FromSlash(SubSeq(path, 1, n), sep)
        rest == SubSeq(path, n + 1, Len(path))
        rooted == rest # <<>> /\ IsPathSeparator(rest[1], sep)
        body == JoinElems(CleanElems(SplitElems(rest, sep, <<>>), rooted, <<>>), sep)
    IN  IF rest = <<>> /\ n > 2 THEN vol
        ELSE IF rooted THEN vol \o <<sep>> \o body
        ELSE IF body = <<>> THEN vol \o <<".">>
        ELSE vol \o body

\* filepath.Join(dir, name) as filepath.Walk calls it for each name of a
\* directory: the two joined by a separator and cleaned; on Windows no separator
\* is added after a separator or after the colon of a drive
Join(dir, name, sep) ==
    IF dir = <<>> THEN Clean(name, sep)
    ELSE IF name = <<>> THEN Clean(dir, sep)
    ELSE IF sep = Backslash
            /\ (IsPathSeparator(dir[Len(dir)], sep) \/ dir[Len(dir)] = ":")
    THEN Clean(dir \o name, sep)
    ELSE Clean(dir \o <<sep>> \o name, sep)

(***************************************************************************)
(* The remote key of a visited file.                                       *)
(***************************************************************************)
\* relativePath and s3Key of the walk callback
S3Key(path, localDirectory, sep) ==
    LET relativePath == TrimPrefix(TrimPrefix(path, localDirectory), <<sep>>)
    IN  ReplaceAll(relativePath, <<sep>>, <<Slash>>)

(***************************************************************************)
(* The local tree: the entries under the archive root that are not         *)
(* directories, each named by its path elements below the root; the        *)
(* directories are the proper prefixes of those paths.                     *)
(***************************************************************************)
EntryUniverse ==
    { [rel |-> << <<"a">> >>, mode |-> "regular"],
      [rel |-> << <<".", "a">> >>, mode |-> "regular"],
      [rel |-> << <<"s">>, <<"b">> >>, mode |-> "regular"],
      [rel |-> << <<"-">> >>, mode |-> "regular"] }

Trees == { t \in SUBSET EntryUniverse : Cardinality(t) <= MaxFiles }

\* a symbolic link under the root: os.Lstat does not follow it, so that its
\* FileInfo is not a directory whatever the link points to
LinkEntry == [rel |-> << <<"l">> >>, mode |-> "symlink"]

\* the trees with the symbolic link
LinkTrees == { t \cup { LinkEntry } : t \in { x \in Trees : Cardinality(x) < MaxFiles } }

\* spellings of -local, per path separator: a directory d of the working
\* directory, the working directory, a directory of a drive and a directory of
\* a share \\h\s
RootSpellings(sep) ==
    IF sep = Slash
    THEN { <<"d">>, <<"d", "/">>, <<".", "/", "d">>, <<"d", "/", "/">>, <<".">>,
           <<"/", "d">>, <<"/">> }
    ELSE { <<"d">>, <<"d", "\\">>, <<"d", "/">>, <<".", "\\", "d">>, <<".">>,
           <<"c", ":", "\\", "d">>, <<"c", ":", "/", "d">>, <<"c", ":", "\\">>,
           <<"\\", "\\", "h", "\\", "s", "\\", "d">>,
           <<"/", "/", "h", "/", "s", "/", "d">>,
           <<"\\", "\\", "h", "\\", "s", "\\", "d", "\\">> }

RECURSIVE SortStrings(_)
\* sort.Strings over the names of one directory
SortStrings(names) ==
    IF names = {} THEN <<>>
    ELSE LET m == CHOOSE x \in names : \A y \in names \ {x} : StrLess(x, y)
         IN  <<m>> \o SortStrings(names \ {m})

\* readDirNames: the sorted names of the directory at the elements prefix
ReadDirNames(tree, prefix) ==
    SortStrings({ e.rel[Len(prefix) + 1] :
                    e \in { x \in tree : Len(x.rel) > Len(prefix)
                                          /\ SubSeq(x.rel, 1, Len(prefix)) = prefix } })

RECURSIVE WalkNames(_, _, _, _, _)
RECURSIVE WalkEntry(_, _, _, _)
\* filepath.walk on one entry: the callback on it, then on its children if a directory
WalkEntry(tree, path, prefix, sep) ==
    IF \E e \in tree : e.rel = prefix
    THEN << [path |-> path, rel |-> prefix, isDir |-> FALSE,
             mode |-> (CHOOSE e \in tree : e.rel = prefix).mode] >>
    ELSE << [path |-> path, rel |-> prefix, isDir |-> TRUE, mode |-> "dir"] >>
         \o WalkNames(tree, path, prefix, ReadDirNames(tree, prefix), sep)

WalkNames(tree, path, prefix, names, sep) ==
    IF names = <<>> THEN <<>>
    ELSE WalkEntry(tree, Join(path, Head(names), sep), Append(prefix, Head(names)), sep)
         \o WalkNames(tree, path, prefix, Tail(names), sep)

\* the calls filepath.Walk(root, fn) makes, in order, when no call returns an error
WalkSeq(tree, root, sep) == WalkEntry(tree, root, <<>>, sep)

\* the keys the files of the tree derive under this root
TreeKeys(tree, root, sep) ==
    LET w == WalkSeq(tree, root, sep)
    IN  { S3Key(w[i].path, root, sep) : i \in { j \in 1..Len(w) : ~w[j].isDir } }

(***************************************************************************)
(* The manifest file and the bucket.                                       *)
(***************************************************************************)
\* a key of the bucket that no local file derives
ForeignKey == <<"z">>

RECURSIVE SeqsUpTo(_, _)
\* the sequences without repetition over keys, of length at most n
SeqsUpTo(keys, n) ==
    IF n = 0 THEN { <<>> }
    ELSE LET shorter == SeqsUpTo(keys, n - 1)
         IN  shorter \cup { Append(q, k) : q \in shorter, k \in keys }

Range(q) == { q[i] : i \in 1..Len(q) }

NoDuplicates(q) == \A i, j \in 1..Len(q) : q[i] = q[j] => i = j

\* the file at the manifest location: none, one that cannot be read, one that
\* is not the JSON of ArchivedFiles (a truncated one, say), or such a JSON document
AbsentFile == [state |-> "absent", files |-> <<>>]
UnreadableFile == [state |-> "unreadable", files |-> <<>>]
MalformedFile == [state |-> "malformed", files |-> <<>>]

\* json.MarshalIndent of ArchivedFiles: the document SaveArchivedFiles writes
MarshalArchived(archivedFiles) == [state |-> "document", files |-> archivedFiles]

\* what can be at the manifest location before the first run
ManifestFiles(keys) ==
    { AbsentFile, UnreadableFile, MalformedFile }
    \cup { MarshalArchived(q) : q \in { x \in SeqsUpTo(keys, MaxManifest) : NoDuplicates(x) } }

\* a slip: the os.IsNotExist case left out, so that a missing file is an error
LoadWithoutNotExist(file) ==
    IF file.state = "document" THEN [files |-> file.files, err |-> FALSE]
    ELSE [files |-> <<>>, err |-> TRUE]

\* LoadArchivedFiles: the manifest and whether an error is returned
LoadArchivedFiles(file) ==
    IF file.state = "absent" THEN [files |-> <<>>, err |-> FALSE]
    ELSE IF file.state = "unreadable" THEN [files |-> <<>>, err |-> TRUE]
    ELSE IF file.state = "malformed" THEN [files |-> <<>>, err |-> TRUE]
    ELSE [files |-> file.files, err |-> FALSE]

\* the keys of the bucket in the order ListObjectsV2 returns them
BucketListing(keys) == SortStrings(keys)

\* one page of the listing: the keys after the first `fetched` ones
Page(listing, fetched) ==
    SubSeq(listing, fetched + 1,
           IF fetched + PageSize < Len(listing) THEN fetched + PageSize ELSE Len(listing))

\* GenerateArchiveFilePath
GenerateArchiveFilePath(archiveDir, localDir, sep) ==
    LET baseName == ReplaceAll(ReplaceAll(localDir, <<sep>>, <<"_">>), <<":">>, <<"-">>)
    IN  Join(archiveDir, baseName \o <<".", "j", "s", "o", "n">>, sep)

ArchivesDirName == <<"a", "r", "c", "h", "i", "v", "e", "s">>

(***************************************************************************)
(* The decision of the walk callback for one file.                         *)
(***************************************************************************)
\* a slip: the lookups made with the local path instead of the key
DecideByPath(path, s3Key, snapshot, archivedFiles) ==
    IF path \in snapshot THEN "skip_s3"
    ELSE IF \E i \in 1..Len(archivedFiles) : archivedFiles[i] = path THEN "skip_archived"
    ELSE "upload"

\* a slip: the lookup in s3FileMap left out
DecideManifestOnly(path, s3Key, snapshot, archivedFiles) ==
    IF \E i \in 1..Len(archivedFiles) : archivedFiles[i] = s3Key THEN "skip_archived"
    ELSE "upload"

\* a slip: the loop over archived.Files left out
DecideS3Only(path, s3Key, snapshot, archivedFiles) ==
    IF s3Key \in snapshot THEN "skip_s3" ELSE "upload"

Decide(path, s3Key, snapshot, archivedFiles) ==
    IF s3Key \in snapshot THEN "skip_s3"
    ELSE IF \E i \in 1..Len(archivedFiles) : archivedFiles[i] = s3Key THEN "skip_archived"
    ELSE "upload"

\* a slip: the key appended whether or not UploadFile returned an error
AppendAlways(archivedFiles, s3Key, uploaded) == Append(archivedFiles, s3Key)

\* a slip: the append to archived.Files left out
AppendNever(archivedFiles, s3Key, uploaded) == archivedFiles

\* archived.Files after the call of UploadFile for s3Key
ArchivedAfterUpload(archivedFiles, s3Key, uploaded) ==
    IF uploaded THEN Append(archivedFiles, s3Key) ELSE archivedFiles

(***************************************************************************)
(* State.                                                                  *)
(***************************************************************************)
VARIABLES
    sep,             \* os.PathSeparator of the platform
    bucketName,      \* -bucket
    localDirectory,  \* -local
    archiveFile,     \* -archive
    tree,            \* the files under the archive root
    calls,           \* the calls filepath.Walk makes over tree when none returns an error
    archivesDir,     \* "missing" or "present": the directory archives
    disk,            \* the file at the manifest location
    bucket,          \* the keys of the objects in the bucket
    pc,              \* the position of main
    archiveJSON,     \* the manifest location main determined
    archived,        \* archived.Files
    files,           \* files of ListS3Files, the keys of the pages fetched so far
    s3FileMap,       \* the keys of s3FileMap
    pageRequests,    \* the calls of paginator.NextPage made in this run
    walkIdx,         \* the next call of the walk callback
    exitStatus,      \* the exit status, -1 while the process has none
    run,             \* the number of this run
    failure,         \* the stage whose error ended the run, or "none"
    uploadCalls,     \* the calls of UploadFile made in this run
    diskAtStart,     \* disk when this run started
    loaded,          \* the manifest LoadArchivedFiles returned in this run
    prev             \* how the previous run ended

flagVars == <<sep, bucketName, localDirectory, archiveFile, tree, calls>>
worldVars == <<archivesDir, disk, bucket>>
procVars == <<pc, archiveJSON, archived, files, pageRequests, s3FileMap, walkIdx, exitStatus>>
histVars == <<run, failure, uploadCalls, diskAtStart, loaded, prev>>
vars == <<flagVars, worldVars, procVars, histVars>>

NoPrev == [outcome |-> "none", ok |-> {}, failed |-> {}, root |-> <<>>, json |-> <<>>]

Seps == { Slash, Backslash }

\* the manifest given with -archive
GivenArchiveFile == <<"j">>

InitProcess ==
    /\ calls = WalkSeq(tree, localDirectory, sep)
    /\ pc = "flags"
    /\ archiveJSON = <<>>
    /\ archived = <<>>
    /\ files = <<>>
    /\ pageRequests = 0
    /\ s3FileMap = {}
    /\ walkIdx = 1
    /\ exitStatus = -1
    /\ run = 1
    /\ failure = "none"
    /\ uploadCalls = <<>>
    /\ diskAtStart = disk
    /\ loaded = <<>>
    /\ prev = NoPrev

\* the spellings of -local the runs are explored with
RunRoots(os) ==
    IF os = Slash THEN { <<"d">>, <<".", "/", "d">>, <<".">> } ELSE { <<"d", "\\">> }

\* the bucket and the manifest file before the first run, over the keys the
\* tree derives and one key more
InitWorld ==
    LET keys == TreeKeys(tree, localDirectory, sep)
    IN  /\ bucket \in SUBSET (keys \cup { ForeignKey })
        /\ disk \in ManifestFiles(keys)

\* both required flags given, the manifest location given with -archive
InitArchiveGiven ==
    /\ sep \in Seps
    /\ bucketName = <<"b">>
    /\ localDirectory \in RunRoots(sep)
    /\ archiveFile = GivenArchiveFile
    /\ archivesDir = "missing"
    /\ tree \in Trees
    /\ InitWorld

\* both required flags given, the manifest in the directory archives, which
\* holds no file when it does not exist
InitArchiveDefault ==
    /\ sep \in Seps
    /\ bucketName = <<"b">>
    /\ localDirectory = <<"d">>
    /\ archiveFile = <<>>
    /\ archivesDir \in { "missing", "present" }
    /\ tree \in { t \in Trees : Cardinality(t) <= 1 }
    /\ InitWorld
    /\ archivesDir = "missing" => disk = AbsentFile

\* a required flag missing
InitFlagMissing ==
    /\ sep \in Seps
    /\ \/ bucketName = <<>> /\ localDirectory = <<"d">>
       \/ bucketName = <<"b">> /\ localDirectory = <<>>
    /\ archiveFile = <<>>
    /\ archivesDir = "missing"
    /\ tree = {}
    /\ bucket = {}
    /\ disk = AbsentFile

Init == (InitArchiveGiven \/ InitArchiveDefault \/ InitFlagMissing) /\ InitProcess

(***************************************************************************)
(* main, step by step.                                                     *)
(***************************************************************************)
\* a slip: the listing error logged with log.Printf, so that main goes on
LogListError(stage) ==
    /\ pc' = IF stage = "list" THEN "walk" ELSE "fatal"
    /\ exitStatus' = IF stage = "list" THEN exitStatus ELSE 1
    /\ failure' = stage

\* a slip: the save error logged with log.Printf, so that main returns normally
LogSaveError(stage) ==
    /\ pc' = IF stage = "save" THEN "done" ELSE "fatal"
    /\ exitStatus' = IF stage = "save" THEN 0 ELSE 1
    /\ failure' = stage

\* a slip: the error of filepath.Walk logged with log.Printf, so that main goes
\* on to SaveArchivedFiles
LogWalkError(stage) ==
    /\ pc' = IF stage \in { "walk", "upload" } THEN "save" ELSE "fatal"
    /\ exitStatus' = IF stage \in { "walk", "upload" } THEN exitStatus ELSE 1
    /\ failure' = stage

\* log.Fatalf: the process exits with status 1
Fatal(stage) ==
    /\ pc' = "fatal"
    /\ exitStatus' = 1
    /\ failure' = stage

\* flag.Parse and the check of the required flags
ParseFlags ==
    /\ pc = "flags"
    /\ IF bucketName = <<>> \/ localDirectory = <<>>
       THEN Fatal("flags")
       ELSE pc' = "archive" /\ UNCHANGED <<exitStatus, failure>>
    /\ UNCHANGED <<flagVars, worldVars, archiveJSON, archived, files, pageRequests, s3FileMap, walkIdx,
                   run, uploadCalls, diskAtStart, loaded, prev>>

\* the manifest location: -archive, or archives/<name derived from -local>
DetermineArchivePath ==
    /\ pc = "archive"
    /\ \/ /\ archiveFile # <<>>
          /\ archiveJSON' = archiveFile
          /\ pc' = "config"
          /\ UNCHANGED <<archivesDir, exitStatus, failure>>
       \/ /\ archiveFile = <<>>
          /\ archivesDir = "present"
          /\ archiveJSON' = GenerateArchiveFilePath(ArchivesDirName, localDirectory, sep)
          /\ pc' = "config"
          /\ UNCHANGED <<archivesDir, exitStatus, failure>>
       \/ /\ archiveFile = <<>>
          /\ archivesDir = "missing"
          /\ archivesDir' = "present"
          /\ archiveJSON' = GenerateArchiveFilePath(ArchivesDirName, localDirectory, sep)
          /\ pc' = "config"
          /\ UNCHANGED <<exitStatus, failure>>
       \/ /\ archiveFile = <<>>
          /\ archivesDir = "missing"
          /\ Fatal("mkdir")
          /\ UNCHANGED <<archivesDir, archiveJSON>>
    /\ UNCHANGED <<flagVars, disk, bucket, archived, files, pageRequests, s3FileMap, walkIdx,
                   run, uploadCalls, diskAtStart, loaded, prev>>

\* config.LoadDefaultConfig, with or without -cred
LoadConfig ==
    /\ pc = "config"
    /\ \/ pc' = "load" /\ UNCHANGED <<exitStatus, failure>>
       \/ Fatal("config")
    /\ UNCHANGED <<flagVars, worldVars, archiveJSON, archived, files, pageRequests, s3FileMap, walkIdx,
                   run, uploadCalls, diskAtStart, loaded, prev>>

\* archived, err := LoadArchivedFiles(archiveJSON)
LoadManifest ==
    /\ pc = "load"
    /\ LET r == LoadArchivedFiles(disk)
       IN  IF r.err
           THEN Fatal("load") /\ UNCHANGED <<archived, loaded>>
           ELSE /\ archived' = r.files
                /\ loaded' = r.files
                /\ pc' = "list"
                /\ UNCHANGED <<exitStatus, failure>>
    /\ UNCHANGED <<flagVars, worldVars, archiveJSON, files, pageRequests, s3FileMap, walkIdx,
                   run, uploadCalls, diskAtStart, prev>>

\* a slip: the loop left on a failed page request and the keys fetched so far
\* returned without the error
ReturnPartial(got, err) == [files |-> got, err |-> FALSE]

\* the return of ListS3Files: nil and the error when a page request failed,
\* files and nil after the last page
ListS3FilesReturn(got, err) ==
    IF err THEN [files |-> <<>>, err |-> TRUE] ELSE [files |-> got, err |-> FALSE]

\* one turn of the paginator loop of ListS3Files: the page is appended to files,
\* or its request fails; when the loop is left ListS3Files returns, and main
\* exits on the error or builds s3FileMap from the keys returned
ListPage ==
    /\ pc = "list"
    /\ pageRequests' = pageRequests + 1
    /\ \E err \in BOOLEAN :
          LET listing == BucketListing(bucket)
              got == IF err THEN files ELSE files \o Page(listing, Len(files))
              r == ListS3FilesReturn(got, err)
          IN  IF ~err /\ Len(got) < Len(listing)
              THEN /\ files' = got
                   /\ pc' = "list"
                   /\ UNCHANGED <<s3FileMap, exitStatus, failure>>
              ELSE IF r.err
              THEN /\ Fatal("list")
                   /\ UNCHANGED <<files, s3FileMap>>
              ELSE /\ files' = got
                   /\ s3FileMap' = Range(r.files)
                   /\ pc' = "walk"
                   /\ UNCHANGED <<exitStatus, failure>>
    /\ UNCHANGED <<flagVars, worldVars, archiveJSON, archived, walkIdx,
                   run, uploadCalls, diskAtStart, loaded, prev>>

\* the callback returned nil: the walk goes on, or returns nil after the last call
WalkOn ==
    /\ walkIdx' = walkIdx + 1
    /\ pc' = IF walkIdx = Len(calls) THEN "save" ELSE "walk"

\* the callback is called with an error (Lstat or the read of a directory failed)
\* and returns it: filepath.Walk returns it and main exits
WalkError ==
    /\ pc = "walk"
    /\ Fatal("walk")
    /\ UNCHANGED <<flagVars, worldVars, archiveJSON, archived, files, pageRequests, s3FileMap, walkIdx,
                   run, uploadCalls, diskAtStart, loaded, prev>>

\* the callback on a directory
VisitDir ==
    /\ pc = "walk"
    /\ calls[walkIdx].isDir
    /\ WalkOn
    /\ UNCHANGED <<flagVars, worldVars, archiveJSON, archived, files, pageRequests, s3FileMap, exitStatus,
                   histVars>>

\* the callback on a file that is in the bucket listing or in the manifest
SkipFile ==
    /\ pc = "walk"
    /\ ~calls[walkIdx].isDir
    /\ LET path == calls[walkIdx].path
           s3Key == S3Key(path, localDirectory, sep)
       IN  Decide(path, s3Key, s3FileMap, archived) \in { "skip_s3", "skip_archived" }
    /\ WalkOn
    /\ UNCHANGED <<flagVars, worldVars, archiveJSON, archived, files, pageRequests, s3FileMap, exitStatus,
                   histVars>>

\* the flags main defines
FlagNames == { "cred", "bucket", "region", "local", "archive" }

\* the s3.PutObjectInput of UploadFile; a field the code does not set has the
\* zero value, and S3 stores an object without storage class as STANDARD
PutObjectInput(bucketArg, s3Key, localPath) ==
    [Bucket |-> bucketArg, Key |-> s3Key, Body |-> localPath, StorageClass |-> ""]

\* the callback on a file to upload: UploadFile, then the append to archived.Files.
\* UploadFile fails when os.Open fails or PutObject returns an error; an
\* object may have been stored although PutObject returned an error. puts holds
\* the PutObject request of the call, none when os.Open failed.
UploadStep ==
    /\ pc = "walk"
    /\ ~calls[walkIdx].isDir
    /\ LET path == calls[walkIdx].path
           s3Key == S3Key(path, localDirectory, sep)
       IN  /\ Decide(path, s3Key, s3FileMap, archived) = "upload"
           /\ \E outcome \in { "uploaded", "open_failed", "put_failed", "put_failed_stored" } :
                LET uploaded == outcome = "uploaded"
                IN  /\ uploadCalls' = Append(uploadCalls,
                                             [path |-> path, key |-> s3Key, ok |-> uploaded,
                                              puts |-> IF outcome = "open_failed" THEN <<>>
                                                       ELSE << PutObjectInput(bucketName, s3Key, path) >>])
                    /\ bucket' = IF outcome \in { "uploaded", "put_failed_stored" }
                                 THEN bucket \cup { s3Key } ELSE bucket
                    /\ archived' = ArchivedAfterUpload(archived, s3Key, uploaded)
                    /\ IF uploaded
                       THEN WalkOn /\ UNCHANGED <<exitStatus, failure>>
                       ELSE Fatal("upload") /\ UNCHANGED walkIdx
    /\ UNCHANGED <<flagVars, archivesDir, disk, archiveJSON, files, pageRequests, s3FileMap,
                   run, diskAtStart, loaded, prev>>

\* what ioutil.WriteFile leaves when it fails: the file as it was (it could not
\* be opened) or a truncated, partly written file
AfterFailedWrite(file) == { file, MalformedFile }

\* SaveArchivedFiles succeeds and main returns
SaveOK ==
    /\ pc = "save"
    /\ disk' = MarshalArchived(archived)
    /\ pc' = "done"
    /\ exitStatus' = 0
    /\ UNCHANGED <<flagVars, archivesDir, bucket, archiveJSON, archived, files, pageRequests, s3FileMap,
                   walkIdx, histVars>>

\* SaveArchivedFiles returns an error
SaveFail ==
    /\ pc = "save"
    /\ disk' \in AfterFailedWrite(disk)
    /\ Fatal("save")
    /\ UNCHANGED <<flagVars, archivesDir, bucket, archiveJSON, archived, files, pageRequests, s3FileMap,
                   walkIdx, run, uploadCalls, diskAtStart, loaded, prev>>

Running == { "flags", "archive", "config", "load", "list", "walk", "save" }

\* the process is terminated from outside; during the save the file may be left
\* partly written
Kill ==
    /\ pc \in Running
    /\ pc' = "killed"
    /\ disk' \in (IF pc = "save" THEN AfterFailedWrite(disk) ELSE { disk })
    /\ UNCHANGED <<flagVars, archivesDir, bucket, archiveJSON, archived, files, pageRequests, s3FileMap,
                   walkIdx, exitStatus, histVars>>

\* the keys of the calls of UploadFile with the given result
CallKeys(made, ok) == { made[i].key : i \in { j \in 1..Len(made) : made[j].ok = ok } }

\* the process has ended and the program is started again: prev keeps how the
\* run ended, its -local and the default manifest location it derived from it
StartAgain ==
    /\ pc \in { "done", "fatal", "killed" }
    /\ run < MaxRuns
    /\ run' = run + 1
    /\ prev' = [outcome |-> IF pc = "done" THEN "done" ELSE "aborted",
                ok |-> CallKeys(uploadCalls, TRUE), failed |-> CallKeys(uploadCalls, FALSE),
                root |-> localDirectory,
                json |-> IF archiveFile = <<>> THEN archiveJSON ELSE <<>>]
    /\ pc' = "flags"
    /\ archiveJSON' = <<>>
    /\ archived' = <<>>
    /\ files' = <<>>
    /\ pageRequests' = 0
    /\ s3FileMap' = {}
    /\ walkIdx' = 1
    /\ exitStatus' = -1
    /\ failure' = "none"
    /\ uploadCalls' = <<>>
    /\ diskAtStart' = disk
    /\ loaded' = <<>>

\* the program is started again with the same flags over the same local files
NextRun ==
    /\ StartAgain
    /\ UNCHANGED <<flagVars, worldVars>>

Next ==
    \/ ParseFlags
    \/ DetermineArchivePath
    \/ LoadConfig
    \/ LoadManifest
    \/ ListPage
    \/ WalkError
    \/ VisitDir
    \/ SkipFile
    \/ UploadStep
    \/ SaveOK
    \/ SaveFail
    \/ Kill
    \/ NextRun

Spec == Init /\ [][Next]_vars

\* the runs over every spelling of -local, for trees with a file in a
\* subdirectory, an empty bucket and no manifest file
InitKeyDerivation ==
    /\ sep \in Seps
    /\ bucketName = <<"b">>
    /\ localDirectory \in RootSpellings(sep)
    /\ archiveFile = GivenArchiveFile
    /\ archivesDir = "missing"
    /\ tree \in { t \in Trees : \E e \in t : Len(e.rel) > 1 }
    /\ bucket = {}
    /\ disk = AbsentFile

KeyInit == InitKeyDerivation /\ InitProcess

KeySpec == KeyInit /\ [][Next]_vars

\* spellings of -local for the default manifest location: a directory d, a
\* directory s of d, directories whose names hold "_" or "-", a name with ":"
PathRoots(os) ==
    IF os = Slash
    THEN { <<"d">>, <<"d", "/", "s">>, <<"d", "_", "s">>, <<"c", ":">>, <<"c", "-">> }
    ELSE { <<"d">>, <<"d", "\\", "s">>, <<"d", "_", "s">>,
           <<"c", ":", "\\", "d">>, <<"c", "-", "_", "d">> }

\* the runs with the manifest in the directory archives, over these spellings
InitDefaultLocation ==
    /\ sep \in Seps
    /\ bucketName = <<"b">>
    /\ localDirectory \in PathRoots(sep)
    /\ archiveFile = <<>>
    /\ archivesDir \in { "missing", "present" }
    /\ tree \in { t \in Trees : Cardinality(t) <= 1 }
    /\ bucket = {}
    /\ disk = AbsentFile

PathInit == InitDefaultLocation /\ InitProcess

\* after the first run the program is started with another -local, a directory
\* holding the same files; the file at the manifest location of the new run is
\* the one the first run left when the two locations are the same path
RunOtherRoot ==
    /\ StartAgain
    /\ run = 1
    /\ archiveFile = <<>>
    /\ \E other \in PathRoots(sep) \ { localDirectory } :
          /\ localDirectory' = other
          /\ calls' = WalkSeq(tree, other, sep)
          /\ disk' = IF GenerateArchiveFilePath(ArchivesDirName, other, sep)
                        = GenerateArchiveFilePath(ArchivesDirName, localDirectory, sep)
                     THEN disk ELSE AbsentFile
    /\ UNCHANGED <<sep, bucketName, archiveFile, tree, archivesDir, bucket>>

PathNext == Next \/ RunOtherRoot

PathSpec == PathInit /\ [][PathNext]_vars

\* the runs over the trees that hold a symbolic link
InitLink ==
    /\ sep \in Seps
    /\ bucketName = <<"b">>
    /\ localDirectory = <<"d">>
    /\ archiveFile = GivenArchiveFile
    /\ archivesDir = "missing"
    /\ tree \in { t \in LinkTrees : Cardinality(t) <= 2 }
    /\ bucket \in SUBSET TreeKeys(tree, localDirectory, sep)
    /\ disk = AbsentFile

LinkInit == InitLink /\ InitProcess

LinkSpec == LinkInit /\ [][Next]_vars

(***************************************************************************)
(* Properties of the runs.                                                 *)
(***************************************************************************)
\* the calls of the walk callback on files, as indices of calls
FileCalls == { i \in 1..Len(calls) : ~calls[i].isDir }

KeyOfCall(i) == S3Key(calls[i].path, localDirectory, sep)

UploadedPaths == { uploadCalls[j].path : j \in 1..Len(uploadCalls) }

UploadedKeys == { uploadCalls[j].key : j \in 1..Len(uploadCalls) }

\* C1: a run started after a run that completed normally, over the same local
\* files, calls UploadFile zero times.
C1_Idempotent == prev.outcome = "done" => uploadCalls = <<>>

\* a second run that completed after a first run that uploaded something
C1_Witness ==
    /\ prev.outcome = "done"
    /\ prev.ok # {}
    /\ pc = "done"

\* C2: UploadFile is never called for a local file whose derived key is in
\* s3FileMap, the listing taken at startup, whatever the manifest holds.
C2_SkipListed ==
    \A i \in FileCalls : KeyOfCall(i) \in s3FileMap => calls[i].path \notin UploadedPaths

\* a completed run that skipped a listed file absent from the manifest and
\* uploaded another file
C2_Witness ==
    /\ pc = "done"
    /\ uploadCalls # <<>>
    /\ \E i \in FileCalls : KeyOfCall(i) \in s3FileMap /\ KeyOfCall(i) \notin Range(loaded)

\* C3: when UploadFile fails for a key, the run ends there with status 1, the
\* failed call being the last call of the walk, the key is not in the manifest
\* in memory and the manifest file is as it was; and a later run in which the
\* key is not in the listing calls UploadFile for it once the walk reaches it.
C3_UploadFailure ==
    /\ failure = "upload" =>
          /\ pc = "fatal"
          /\ exitStatus = 1
          /\ uploadCalls # <<>>
          /\ LET c == uploadCalls[Len(uploadCalls)]
             IN  /\ ~c.ok
                 /\ c.path = calls[walkIdx].path
                 /\ c.key \notin Range(archived)
          /\ disk = diskAtStart
    /\ \A k \in prev.failed :
          (k \notin s3FileMap /\ \E i \in FileCalls : i < walkIdx /\ KeyOfCall(i) = k)
             => k \in UploadedKeys

\* a run that uploads the key whose upload failed in the run before
C3_Witness ==
    \E k \in prev.failed : k \in CallKeys(uploadCalls, TRUE) /\ k \notin s3FileMap

\* C4: from a manifest file without duplicates, no key occurs twice in
\* archived.Files or in the manifest file, over any sequence of runs.
C4_NoDuplicates == NoDuplicates(archived) /\ NoDuplicates(disk.files)

\* a second completed run whose manifest holds the key found in the first
\* manifest file and a key the first run appended, the file of a key of the
\* manifest being absent from the bucket
C4_Witness ==
    /\ prev.outcome = "done"
    /\ prev.ok # {}
    /\ pc = "done"
    /\ Len(disk.files) > 1
    /\ \E i \in FileCalls : KeyOfCall(i) \in Range(loaded) /\ KeyOfCall(i) \notin s3FileMap

\* C5: when a page request of the listing fails, the process exits with status
\* 1, having called UploadFile not once, and the manifest file is as it was
\* before the run.
C5_ListingFailure ==
    failure = "list" =>
        /\ pc = "fatal"
        /\ exitStatus = 1
        /\ uploadCalls = <<>>
        /\ walkIdx = 1
        /\ disk = diskAtStart

\* the request of a later page failed, with a manifest file and files to upload
C5_Witness ==
    /\ failure = "list"
    /\ pageRequests > 1
    /\ disk.state = "document"
    /\ \E i \in FileCalls : KeyOfCall(i) \notin bucket

\* C8: a run that ends by itself ends either with status 1 at its first error,
\* or normally with status 0 and no error, the manifest file being the one
\* SaveArchivedFiles wrote from archived.Files.
C8_ExitBehaviour ==
    /\ failure # "none" <=> pc = "fatal"
    /\ pc = "fatal" => exitStatus = 1
    /\ pc = "done" => exitStatus = 0 /\ disk = MarshalArchived(archived)
    /\ pc \notin { "fatal", "done" } => exitStatus = -1

\* a run that uploaded a file and ended on the error of SaveArchivedFiles
C8_Witness ==
    /\ pc = "fatal"
    /\ failure = "save"
    /\ uploadCalls # <<>>

\* the run is past the call of LoadArchivedFiles
PastLoad ==
    \/ pc \in { "list", "walk", "save", "done" }
    \/ pc = "fatal" /\ failure \in { "load", "list", "walk", "upload", "save" }

\* C9: with no file at the manifest location LoadArchivedFiles returns the empty
\* manifest and no error; with a file that cannot be read or parsed the run
\* ends with status 1 before any page request and any upload.
C9_AbsentManifest ==
    PastLoad =>
        /\ diskAtStart.state = "absent" => failure # "load" /\ loaded = <<>>
        /\ diskAtStart.state \in { "unreadable", "malformed" } =>
              /\ failure = "load"
              /\ exitStatus = 1
              /\ pageRequests = 0
              /\ uploadCalls = <<>>

\* a run without a manifest file that uploaded a file and wrote the manifest
C9_Witness ==
    /\ diskAtStart.state = "absent"
    /\ pc = "done"
    /\ uploadCalls # <<>>
    /\ disk.state = "document"

RECURSIVE DueFrom(_)
\* the calls from the i-th on that are on files whose key is neither in the
\* listing nor in the manifest loaded
DueFrom(i) ==
    IF i > Len(calls) THEN <<>>
    ELSE (IF ~calls[i].isDir /\ KeyOfCall(i) \notin (s3FileMap \cup Range(loaded))
          THEN <<i>> ELSE <<>>) \o DueFrom(i + 1)

\* C6: a completed run has called UploadFile for exactly the files whose key is
\* neither in the listing nor in the manifest loaded, in the order of the walk,
\* and has written the manifest loaded followed by the keys of those files.
C6_CompletedRun ==
    pc = "done" =>
        LET due == DueFrom(1)
        IN  /\ Len(uploadCalls) = Len(due)
            /\ \A j \in 1..Len(due) :
                  /\ uploadCalls[j].path = calls[due[j]].path
                  /\ uploadCalls[j].key = KeyOfCall(due[j])
                  /\ uploadCalls[j].ok
            /\ disk = MarshalArchived(loaded \o [j \in 1..Len(due) |-> KeyOfCall(due[j])])

\* C7: a completed run that follows a run aborted after successful uploads
\* calls UploadFile for every file whose key is neither in the bucket nor in
\* the manifest file, and for no key uploaded in the aborted run.
C7_ResumeAfterAbort ==
    (prev.outcome = "aborted" /\ prev.ok # {} /\ pc = "done") =>
        /\ \A i \in FileCalls :
              KeyOfCall(i) \notin (s3FileMap \cup Range(diskAtStart.files))
                 => calls[i].path \in UploadedPaths
        /\ UploadedKeys \cap prev.ok = {}

HasSuffix(s, suffix) ==
    /\ Len(s) >= Len(suffix)
    /\ SubSeq(s, Len(s) - Len(suffix) + 1, Len(s)) = suffix

\* the call of the walk callback with this path
CallOfPath(path) == CHOOSE i \in FileCalls : calls[i].path = path

\* C10: the key UploadFile is called with for a file in a subdirectory holds no
\* path separator other than "/", does not begin with a separator and ends
\* with the path elements below the root joined by "/".
C10_KeyNormalized ==
    \A j \in 1..Len(uploadCalls) :
        LET key == uploadCalls[j].key
            rel == calls[CallOfPath(uploadCalls[j].path)].rel
        IN  Len(rel) > 1 =>
               /\ \A n \in 1..Len(key) : IsPathSeparator(key[n], sep) => key[n] = Slash
               /\ ~IsPathSeparator(key[1], sep)
               /\ HasSuffix(key, JoinElems(rel, Slash))

\* C11: the default manifest locations of two runs are the same path exactly
\* when the two runs were given the same -local: distinct roots give distinct
\* manifest files, and the same root gives the same file again.
C11_DefaultLocationInjective ==
    (archiveFile = <<>> /\ prev.json # <<>> /\ archiveJSON # <<>>) =>
        (archiveJSON = prev.json <=> localDirectory = prev.root)

\* C12: a storage-class flag is among the flags of the program, and every
\* PutObject request of UploadFile carries the configured storage class, which
\* is the default GLACIER when the flag is not given.
C12_StorageClassCarried ==
    \A j \in 1..Len(uploadCalls) :
        \A n \in 1..Len(uploadCalls[j].puts) :
            /\ "storage-class" \in FlagNames
            /\ uploadCalls[j].puts[n].StorageClass = "GLACIER"

\* C13: when the walk is at a file whose key is not in s3FileMap but is in
\* archived.Files (loaded from the manifest file or appended earlier in this
\* run), the step taken calls neither UploadFile nor the paginator and leaves the
\* bucket and the manifest in memory alone: the run ends there from outside or
\* goes on to the next entry. The bucket need not hold the key.
C13_ManifestSkip ==
    [][(/\ pc = "walk"
        /\ ~calls[walkIdx].isDir
        /\ KeyOfCall(walkIdx) \notin s3FileMap
        /\ KeyOfCall(walkIdx) \in Range(archived))
          => /\ uploadCalls' = uploadCalls
             /\ pageRequests' = pageRequests
             /\ <<files', s3FileMap', archived', bucket'>> = <<files, s3FileMap, archived, bucket>>
             /\ \/ pc' \in { "fatal", "killed" }
                \/ walkIdx' = walkIdx + 1]_vars

\* a run that skipped a file whose key was loaded from the manifest file and is
\* not in the bucket, and a file whose key was appended earlier in the run
C13_Witness ==
    /\ pc \in { "walk", "save", "done" }
    /\ \E i \in FileCalls :
          /\ i < walkIdx
          /\ KeyOfCall(i) \in Range(loaded)
          /\ KeyOfCall(i) \notin s3FileMap \cup bucket
          /\ calls[i].path \notin UploadedPaths
    /\ \E i \in FileCalls :
          /\ i < walkIdx
          /\ KeyOfCall(i) \in CallKeys(uploadCalls, TRUE)
          /\ KeyOfCall(i) \notin s3FileMap \cup Range(loaded)
          /\ calls[i].path \notin UploadedPaths

RECURSIVE OkKeys(_)
\* the keys of the calls of UploadFile that returned nil, in the order of the calls
OkKeys(made) ==
    IF made = <<>> THEN <<>>
    ELSE (IF Head(made).ok THEN << Head(made).key >> ELSE <<>>) \o OkKeys(Tail(made))

\* C14: between the steps of the walk, the keys appended to archived.Files in
\* this run are exactly the keys for which UploadFile returned nil in this run,
\* in the order of the calls: each is appended after its upload succeeded and
\* before the next entry is visited, and the key of a failed call is not appended.
C14_ManifestTracksUploads == archived = loaded \o OkKeys(uploadCalls)

\* a run with a manifest loaded from disk in which one upload succeeded and the
\* next one failed
C14_Witness ==
    /\ loaded # <<>>
    /\ Len(uploadCalls) = 2
    /\ uploadCalls[1].ok
    /\ ~uploadCalls[2].ok
    /\ Len(archived) = Len(loaded) + 1

\* C15: in one run UploadFile is called at most once for a key, whatever the
\* tree, the manifest file and the listing.
C15_NoDoubleUpload ==
    \A i, j \in 1..Len(uploadCalls) : uploadCalls[i].key = uploadCalls[j].key => i = j

\* a completed run with two uploads that visited a second file deriving a key
\* already uploaded in the run
C15_Witness ==
    /\ pc = "done"
    /\ Len(uploadCalls) >= 2
    /\ \E i \in FileCalls :
          KeyOfCall(i) \in UploadedKeys /\ calls[i].path \notin UploadedPaths

\* C16: the manifest file is not written while main is running up to the call of
\* SaveArchivedFiles; it differs from the file the run started with only when
\* the walk has made all its calls without error and the run has ended (by the
\* save, or from outside during it); and in a run ended by an error of the
\* listing, of the walk or of an upload the file is as it was before the run and
\* holds none of the keys uploaded in the run.
C16_SingleSave ==
    /\ pc \in Running => disk = diskAtStart
    /\ disk # diskAtStart =>
          /\ walkIdx = Len(calls) + 1
          /\ failure \in { "none", "save" }
          /\ pc \in { "done", "fatal", "killed" }
    /\ failure \in { "list", "walk", "upload" } =>
          /\ disk = diskAtStart
          /\ CallKeys(uploadCalls, TRUE) \cap Range(disk.files) = {}

\* a run with a manifest file that uploaded a file and then ended on a failed
\* upload: the key uploaded is not in the file
C16_Witness ==
    /\ failure = "upload"
    /\ CallKeys(uploadCalls, TRUE) # {}
    /\ disk.state = "document"
    /\ disk.files # <<>>

\* C17: for every spelling of -local and every file under it, the key UploadFile
\* is called with is the path of the file relative to the root, its elements
\* joined by "/".
C17_KeyIsRelativePath ==
    \A j \in 1..Len(uploadCalls) :
        uploadCalls[j].key = JoinElems(calls[CallOfPath(uploadCalls[j].path)].rel, Slash)

\* C18: when the walk reports a filesystem error the run ends there with status
\* 1: the entry of the error and the entries after it, those below it included,
\* are not visited, UploadFile has been called only for files before it, and
\* the manifest file is not written.
C18_WalkFailure ==
    failure = "walk" =>
        /\ pc = "fatal"
        /\ exitStatus = 1
        /\ walkIdx <= Len(calls)
        /\ \A j \in 1..Len(uploadCalls) : CallOfPath(uploadCalls[j].path) < walkIdx
        /\ disk = diskAtStart

\* the read of a subdirectory failed after an upload, a file below the
\* subdirectory being in neither the listing nor the manifest
C18_Witness ==
    /\ failure = "walk"
    /\ uploadCalls # <<>>
    /\ calls[walkIdx].isDir
    /\ calls[walkIdx].rel # <<>>
    /\ \E i \in FileCalls :
          /\ i > walkIdx
          /\ Len(calls[i].rel) > 1
          /\ KeyOfCall(i) \notin s3FileMap \cup Range(archived)

\* the kind of the entry UploadFile was called for in the j-th call
ModeOfUpload(j) == calls[CallOfPath(uploadCalls[j].path)].mode

\* C19: UploadFile is called for no directory, and every entry it is called for
\* is a regular file: no symbolic link or other non-regular entry gets past the
\* walk to the decision and to UploadFile.
C19_OnlyRegularFiles ==
    /\ \A i \in 1..Len(calls) : calls[i].isDir => calls[i].path \notin UploadedPaths
    /\ \A j \in 1..Len(uploadCalls) : ModeOfUpload(j) = "regular"

\* the page requests a listing of n keys takes
PagesOf(n) == IF n = 0 THEN 1 ELSE (n + PageSize - 1) \div PageSize

\* the run is past a call of ListS3Files that returned no error
PastListing ==
    \/ pc \in { "walk", "save", "done" }
    \/ pc = "fatal" /\ failure \in { "walk", "upload", "save" }

\* C20: while ListS3Files is at work it has fetched the pages requested, a
\* prefix of the listing, and main has no inventory yet; once it has returned
\* without error the pages were requested to the last one and s3FileMap holds
\* every key the bucket held, which is every key of the bucket not uploaded in
\* this run; when a page request failed no key was returned, the run has ended
\* with status 1, and the walk was not started.
C20_ListingAllOrNothing ==
    /\ pc = "list" =>
          /\ files = SubSeq(BucketListing(bucket), 1, Len(files))
          /\ Len(files) = pageRequests * PageSize
          /\ s3FileMap = {}
    /\ PastListing =>
          /\ s3FileMap = bucket \ UploadedKeys
          /\ Range(files) = s3FileMap
          /\ pageRequests = PagesOf(Len(files))
    /\ failure = "list" =>
          /\ pc = "fatal"
          /\ exitStatus = 1
          /\ s3FileMap = {}
          /\ walkIdx = 1
          /\ uploadCalls = <<>>

\* the request of a later page failed: the keys of the pages before it were
\* fetched and none reached main
C20_Witness ==
    /\ failure = "list"
    /\ files # <<>>
    /\ Len(files) < Cardinality(bucket)
    /\ s3FileMap = {}

====
